---- MODULE Spec2Model ----
(***************************************************************************)
(* dynamiX rotation scheduler (src/dynamiXMain.py): the automation loop    *)
(* main(), the helpers it calls, and the DynamiXGUI handlers that start    *)
(* and stop the loop and edit the persisted cooldown / exemption files.    *)
(***************************************************************************)
EXTENDS Integers, Sequences, FiniteSets, TLC

\* ------------------------------------------------------------------ bounds
MaxDay == 3
MaxThreads == 2
MaxEvents == 1
SleepSlices == 2
MaxBlocks == 2
MaxTitleLen == 3

\* ------------------------------------------------------ program constants
DefaultMinimumItems == 1
DefaultExclusionDays == 3
DefaultLibraryLimit == 5
DefaultLimit == 5

\* ------------------------------------------------------------ python glue
EmptyDict == [x \in {} |-> 0]

Get(d, k, default) == IF k \in DOMAIN d THEN d[k] ELSE default

Range(s) == {s[i] : i \in DOMAIN s}

Min(a, b) == IF a < b THEN a ELSE b

\* datetime.date <-> 'YYYY-MM-DD' text of the cooldown document
strftime_date(d) == <<"ymd", d>>

strptime_date(s) == s[2]

\* a text strptime(..., '%Y-%m-%d') cannot parse, and the test for it
BadDate == <<"text", 0>>

ValidDate(s) == s[1] = "ymd"

\* now.strftime("%H:%M") as the four digits of the text
strftime_HM(minute) ==
    << (minute \div 60) \div 10, (minute \div 60) % 10,
       (minute % 60) \div 10, (minute % 60) % 10 >>

RECURSIVE StrLess_OrEqual(_, _)
StrLess_OrEqual(a, b) ==
    IF a = <<>> \/ b = <<>> THEN a = <<>>
    ELSE IF Head(a) # Head(b) THEN Head(a) < Head(b)
    ELSE StrLess_OrEqual(Tail(a), Tail(b))

\* str.__le__ / str.__lt__ on equal-length texts: lexicographic
RECURSIVE StrLess(_, _)
StrLess(a, b) ==
    IF a = <<>> \/ b = <<>> THEN a = <<>> /\ b # <<>>
    ELSE IF Head(a) # Head(b) THEN Head(a) < Head(b)
    ELSE StrLess(Tail(a), Tail(b))

StrLeq(a, b) == a = b \/ StrLess(a, b)

DayNames ==
    <<"Monday", "Tuesday", "Wednesday", "Thursday", "Friday", "Saturday", "Sunday">>

\* now.strftime("%A"); day 0 of the model's calendar is a Monday
strftime_A(d) == DayNames[(d % 7) + 1]

\* str.lower() on the collection titles of the model
Lower(title) == IF title = "New Episodes" THEN "new episodes" ELSE title

\* ------------------------------------------------- the remote service
\* library.collections() with len(collection.items()) for every collection
PlexCollections ==
    [ Movies |-> << [title |-> "A", items |-> 2],
                    [title |-> "B", items |-> 0],
                    [title |-> "C", items |-> 5] >>,
      TV     |-> << [title |-> "New Episodes", items |-> 1],
                    [title |-> "D", items |-> 1] >> ]

LibraryNames == DOMAIN PlexCollections

\* library.collections(): the service lists a library's collections in any order
Listings(lib) ==
    LET n == Len(PlexCollections[lib]) IN
    { [i \in 1..n |-> PlexCollections[lib][p[i]]] :
        p \in {q \in [1..n -> 1..n] : \A i, j \in 1..n : i # j => q[i] # q[j]} }

Titles(lib) == {c.title : c \in Range(PlexCollections[lib])}

AllCollections == UNION {{<<lib, ti>> : ti \in Titles(lib)} : lib \in LibraryNames}

AllTitles == UNION {Titles(lib) : lib \in LibraryNames}

\* ------------------------------------------------- the configuration file
T0600 == <<0, 6, 0, 0>>
T1800 == <<1, 8, 0, 0>>
T2300 == <<2, 3, 0, 0>>

Block(name, start, end, limit) ==
    [name |-> name, details |-> [start_time |-> start, end_time |-> end, limit |-> limit]]

\* a JSON object of blocks, in document order, and a JSON value that is none
Dict(items) == [type |-> "dict", items |-> items]

NotADict == [type |-> "list", items |-> <<>>]

Day(limit) == Dict(<< Block("Day", T0600, T1800, limit) >>)

MoviesTimeBlocks ==
    [ Monday |-> Day(1), Tuesday |-> Day(2), Wednesday |-> Day(1), Thursday |-> Day(1),
      Friday |-> Day(1) ]

\* Thursday has no block at the model's wall-clock time
TVTimeBlocks ==
    [ Monday |-> Day(1), Tuesday |-> Day(0), Wednesday |-> Day(1),
      Thursday |-> Dict(<< Block("Evening", T1800, T2300, 1) >>),
      Friday |-> Day(1) ]

ConfigFile(always_pin) ==
    [ libraries |-> <<"Movies", "TV">>,
      minimum_items |-> 1,
      exclusion_days |-> 3,
      always_pin_new_episodes |-> always_pin,
      default_limits |-> [Movies |-> 2, TV |-> 1],
      libraries_settings |->
        [ Movies |-> [time_blocks |-> MoviesTimeBlocks],
          TV     |-> [time_blocks |-> TVTimeBlocks] ] ]

\* the wall-clock time of day at which the model's clock stands: 08:00
ClockMinute == 8 * 60

\* the exemption lists the user saves from the exemptions tab
ExemptionChoices == {<<>>, <<"C">>}

Threads == 1..MaxThreads

NoThread == 0

\* the mark embargo gives a title whose entry the user deleted from the
\* Exclusion List tab (lines 1361-1364) or with its Reset List button
Removed == -1

\* ------------------------------------------------- get_current_time_block
\* the first block of day_blocks (in dict order) whose [start, end) holds
\* current_time, as <<block, limit>>; "Default" when there is none
\* comparing None with a str raises TypeError; this stands for the raise
TypeError == <<"TypeError", 0>>

Raises(result) == result = TypeError

RECURSIVE FirstMatch_Last(_, _, _)
FirstMatch_Last(day_blocks, current_time, library_default_limit) ==
    IF day_blocks = <<>> THEN <<"Default", library_default_limit>>
    ELSE LET details == Head(day_blocks).details
             later == FirstMatch_Last(Tail(day_blocks), current_time, library_default_limit)
         IN  IF later[1] # "Default" THEN later
             ELSE IF "start_time" \notin DOMAIN details THEN TypeError
             ELSE IF ~StrLeq(details.start_time, current_time) THEN later
             ELSE IF "end_time" \notin DOMAIN details THEN TypeError
             ELSE IF StrLess(current_time, details.end_time)
             THEN <<Head(day_blocks).name, Get(details, "limit", library_default_limit)>>
             ELSE later

\* start <= current_time < end is evaluated left to right and stops at the
\* first false comparison; details.get() of a missing key is None
RECURSIVE FirstMatch(_, _, _)
FirstMatch(day_blocks, current_time, library_default_limit) ==
    IF day_blocks = <<>> THEN <<"Default", library_default_limit>>
    ELSE LET details == Head(day_blocks).details IN
         IF "start_time" \notin DOMAIN details THEN TypeError
         ELSE IF ~StrLeq(details.start_time, current_time)
         THEN FirstMatch(Tail(day_blocks), current_time, library_default_limit)
         ELSE IF "end_time" \notin DOMAIN details THEN TypeError
         ELSE IF StrLess(current_time, details.end_time)
         THEN <<Head(day_blocks).name, Get(details, "limit", library_default_limit)>>
         ELSE FirstMatch(Tail(day_blocks), current_time, library_default_limit)

get_current_time_block(config, library_name, now) ==
    LET current_day == strftime_A(now.date)
        current_time == strftime_HM(now.minute)
        library_settings == Get(Get(config, "libraries_settings", EmptyDict), library_name, EmptyDict)
        time_blocks == Get(library_settings, "time_blocks", EmptyDict)
        default_limits == Get(config, "default_limits", EmptyDict)
        library_default_limit == Get(default_limits, library_name, DefaultLibraryLimit)
        day_blocks == Get(time_blocks, current_day, Dict(<<>>))
    IN  IF day_blocks.type # "dict" THEN <<"Default", library_default_limit>>
        ELSE FirstMatch(day_blocks.items, current_time, library_default_limit)

\* main, lines 361-370: the limit the selection of one library is run with
FinalLimit(config, library_name, now) ==
    LET tb == get_current_time_block(config, library_name, now)
        library_settings == Get(Get(config, "libraries_settings", EmptyDict), library_name, EmptyDict)
        default_limit == Get(library_settings, "default_limit", DefaultLimit)
    IN  IF tb[1] # "Default" THEN tb[2] ELSE default_limit

\* ------------------------------------------------- the selection step
\* main, lines 373-378: the list comprehension over library.collections()
ValidCollections_IgnoresCooldown(collections, min_items, used, exemptions) ==
    SelectSeq(collections,
              LAMBDA c : /\ c.items >= min_items
                         /\ c.title \notin Range(exemptions))

ValidCollections(collections, min_items, used, exemptions) ==
    SelectSeq(collections,
              LAMBDA c : /\ c.items >= min_items
                         /\ c.title \notin DOMAIN used
                         /\ c.title \notin Range(exemptions))

Insufficient_OffByOne(valid, final_limit) == Len(valid) + 1 < final_limit

Insufficient_Strict(valid, final_limit) == Len(valid) <= final_limit

\* main, line 380
Insufficient(valid, final_limit) == Len(valid) < final_limit

\* main, line 393
PinLimit(valid, final_limit) == Min(Len(valid), final_limit)

Sample_WithRepeats(population, k) ==
    { [i \in 1..k |-> population[p[i]]] : p \in [1..k -> 1..Len(population)] }

\* random.SystemRandom().sample(population, k): every list of k elements
\* taken from k different positions of population
Sample(population, k) ==
    { [i \in 1..k |-> population[p[i]]] :
        p \in {q \in [1..k -> 1..Len(population)] :
                 \A i, j \in 1..k : i # j => q[i] # q[j]} }

\* ------------------------------------------------- the cooldown map
CleanExpired_KeepsToday(used, current_date) ==
    [name \in {n \in DOMAIN used : strptime_date(used[n]) >= current_date} |-> used[name]]

\* main, lines 337-340
CleanExpired(used, current_date) ==
    [name \in {n \in DOMAIN used : strptime_date(used[n]) > current_date} |-> used[name]]

UpdateExclusionList_NoDays(previous_pinned, used, exclusion_days, current_date) ==
    LET pinned_titles == {c[2] : c \in previous_pinned} IN
    [name \in DOMAIN used \cup pinned_titles |->
        IF name \in pinned_titles THEN strftime_date(current_date) ELSE used[name]]

\* log_and_update_exclusion_list, lines 253-258 (the map before it is saved)
UpdateExclusionList(previous_pinned, used, exclusion_days, current_date) ==
    LET pinned_titles == {c[2] : c \in previous_pinned} IN
    [name \in DOMAIN used \cup pinned_titles |->
        IF name \in pinned_titles
        THEN strftime_date(current_date + exclusion_days)
        ELSE used[name]]

\* ------------------------------------------------------------------ state
VARIABLES
    clock,              \* datetime.now().date(), in days since the model's first Monday
    budget,             \* the disturbances the environment may still cause: a remote
                        \* call that raises, a user edit of a persisted document
    slots,              \* how many Thread objects running main() the run may hold
    config_file,        \* config.json
    used_file,          \* used_collections.json
    exemptions_file,    \* user_exemptions.json
    pinned,             \* the collections promoted on the remote service
    stop_event,         \* DynamiXGUI.stop_event
    script_thread,      \* DynamiXGUI.script_thread
    gui,                \* the GUI thread: what its running handler holds
    pc,                 \* per automation thread: where main() stands
    used_collections,   \* per thread: main's used_collections
    user_exemptions,    \* per thread: main's user_exemptions
    previous_pinned,    \* per thread: main's previous_pinned
    reset_needed,       \* per thread: main's reset_needed
    lib_idx,            \* per thread: position of the for loop over libraries
    pass,               \* per thread: what this pass did for each library so far
    retry,              \* per thread: the library whose shortage made this pass a retry
    embargo,            \* history: per title, the expiry of its latest unrevoked cooldown
    sleep_left,         \* per thread: polling slices of time.sleep(pinning_interval) left
    corrupt,            \* the persisted documents whose text json.load cannot parse
    outcome,            \* per thread: why main() last ended and what its caller got
    cycle_exemptions,   \* history: per thread, the exemption document when its cycle began
    resolver            \* a pure function called on its own: its input and its results

vars == << clock, budget, slots, config_file, used_file, exemptions_file, pinned, stop_event,
           script_thread, gui, pc, used_collections, user_exemptions,
           previous_pinned, reset_needed, lib_idx, pass, retry, embargo,
           sleep_left, corrupt, outcome, cycle_exemptions, resolver >>

Now == [date |-> clock, minute |-> ClockMinute]

Alive(t) == pc[t] # "dead"

GuiIdle == [pc |-> "idle", buf |-> EmptyDict, title |-> "None"]

\* main() has not run; a run that has ended hands its caller None whatever
\* ended it: the bare return of line 310, the end of the function after the
\* loop, and the end of the function after the except clause of line 442
NotEnded == [cause |-> "running", returned |-> "nothing"]

Ended(cause) == [cause |-> cause, returned |-> "None"]

NoCall == [blocks |-> NotADict, has_default |-> FALSE, minute |-> 0, day |-> 0,
           calls |-> << >>]

InitWith(events, threads) ==
    /\ clock = 0
    /\ budget = events
    /\ slots = threads
    /\ config_file \in {ConfigFile(b) : b \in BOOLEAN} \cup {EmptyDict}
    /\ used_file = EmptyDict
    /\ exemptions_file = <<>>
    /\ pinned = {}
    /\ stop_event = FALSE
    /\ script_thread = NoThread
    /\ gui = GuiIdle
    /\ pc = [t \in Threads |-> "dead"]
    /\ used_collections = [t \in Threads |-> EmptyDict]
    /\ user_exemptions = [t \in Threads |-> <<>>]
    /\ previous_pinned = [t \in Threads |-> {}]
    /\ reset_needed = [t \in Threads |-> FALSE]
    /\ lib_idx = [t \in Threads |-> 0]
    /\ pass = [t \in Threads |-> EmptyDict]
    /\ retry = [t \in Threads |-> "None"]
    /\ embargo = [ti \in AllTitles |-> 0]
    /\ sleep_left = [t \in Threads |-> 0]
    /\ corrupt = {}
    /\ outcome = [t \in Threads |-> NotEnded]
    /\ cycle_exemptions = [t \in Threads |-> <<>>]

\* one automation thread in its environment
Init == InitWith(MaxEvents, 1) /\ resolver = NoCall

\* several automation threads under one configuration, nothing else
\* disturbing them
InitThreads ==
    /\ InitWith(0, MaxThreads)
    /\ config_file = ConfigFile(TRUE)
    /\ resolver = NoCall

Put(d, k, v) == [x \in DOMAIN d \cup {k} |-> IF x = k THEN v ELSE d[x]]

Config == config_file

Libraries == Get(Config, "libraries", <<>>)

MinItems == Get(Config, "minimum_items", DefaultMinimumItems)

ExclusionDays == Get(Config, "exclusion_days", DefaultExclusionDays)

AlwaysPinNewEpisodes == Get(Config, "always_pin_new_episodes", FALSE)

IsSentinel(title) == Lower(title) = "new episodes"

\* the collection handle_new_episodes_pinning acts on in one library: the
\* first whose lowered title is "new episodes" (the loop breaks after it)
Sentinels(libraries) ==
    UNION { { <<lib, PlexCollections[lib][j].title>> :
                j \in { i \in DOMAIN PlexCollections[lib] :
                          /\ IsSentinel(PlexCollections[lib][i].title)
                          /\ \A k \in 1..(i - 1) : ~IsSentinel(PlexCollections[lib][k].title) } } :
            lib \in Range(libraries) \cap LibraryNames }

\* a sweep without the exception of line 232: it demotes every collection
UnpinTargets_All(libraries, always_pin_new_episodes) ==
    { c \in AllCollections : c[1] \in Range(libraries) }

\* the collections unpin_collections demotes when every call succeeds
UnpinTargets(libraries, always_pin_new_episodes) ==
    { c \in AllCollections :
        /\ c[1] \in Range(libraries)
        /\ ~(always_pin_new_episodes /\ IsSentinel(c[2])) }

\* a reset that truncates both persisted documents
reset_exclusion_list_file_Both(docs) ==
    [used |-> EmptyDict, exemptions |-> <<>>]

\* lines 159-165, reset_exclusion_list_file: "{}" is written to
\* USED_COLLECTIONS_FILE and to no other file
reset_exclusion_list_file(docs) ==
    [used |-> EmptyDict, exemptions |-> docs.exemptions]

\* ---------------------------------------------------------------- main()
Env == << clock, budget, slots, config_file, exemptions_file >>

Gui == << stop_event, script_thread, gui >>

Rest == << sleep_left, corrupt, outcome, resolver >>

ConfigLoaded_Always(config) == TRUE

\* line 308: load_config() gives {} for a missing or unparseable file
ConfigLoaded(config) == config # EmptyDict

End(t, cause) ==
    /\ pc' = [pc EXCEPT ![t] = "dead"]
    /\ outcome' = [outcome EXCEPT ![t] = Ended(cause)]
    /\ used_collections' = [used_collections EXCEPT ![t] = EmptyDict]
    /\ user_exemptions' = [user_exemptions EXCEPT ![t] = <<>>]
    /\ previous_pinned' = [previous_pinned EXCEPT ![t] = {}]
    /\ reset_needed' = [reset_needed EXCEPT ![t] = FALSE]
    /\ lib_idx' = [lib_idx EXCEPT ![t] = 0]
    /\ pass' = [pass EXCEPT ![t] = EmptyDict]
    /\ retry' = [retry EXCEPT ![t] = "None"]
    /\ sleep_left' = [sleep_left EXCEPT ![t] = 0]
    /\ cycle_exemptions' = [cycle_exemptions EXCEPT ![t] = <<>>]

\* lines 307-310: no configuration, main returns
LoadConfigFails(t) ==
    /\ pc[t] = "start"
    /\ ~ConfigLoaded(Config)
    /\ End(t, "config")
    /\ UNCHANGED << Env, Gui, used_file, pinned, embargo, corrupt, resolver >>

\* line 315: PlexServer(...) raises; lines 442-447 log it and main ends
ConnectFails(t) ==
    /\ pc[t] = "start"
    /\ ConfigLoaded(Config)
    /\ End(t, "connect")
    /\ UNCHANGED << Env, Gui, used_file, pinned, embargo, corrupt, resolver >>

\* lines 325-326: json.load raises on a document it cannot parse; lines
\* 442-447 log it and main ends
LoadStateFails(t) ==
    /\ pc[t] = "start"
    /\ ConfigLoaded(Config)
    /\ corrupt # {}
    /\ End(t, "load")
    /\ UNCHANGED << Env, Gui, used_file, pinned, embargo, corrupt, resolver >>

\* lines 303-331: configuration, connection, the two persisted documents
Load(t) ==
    /\ pc[t] = "start"
    /\ ConfigLoaded(Config)
    /\ corrupt = {}
    /\ pc' = [pc EXCEPT ![t] = "top"]
    /\ used_collections' = [used_collections EXCEPT ![t] = used_file]
    /\ user_exemptions' = [user_exemptions EXCEPT ![t] = exemptions_file]
    /\ UNCHANGED << Env, Gui, used_file, pinned, previous_pinned, reset_needed, lib_idx,
                    pass, retry, embargo, Rest >>
    /\ UNCHANGED cycle_exemptions

\* line 332 with the event set, then the finally clause
\* a loop that never finds the event set
StopSeen_Never(t) == FALSE

\* a loop that tests the event before every step of its cycle
StopSeen_MidCycle(t) ==
    /\ pc[t] \in {"top", "new_episodes", "unpin", "libs", "after_libs", "reload"}
    /\ stop_event

\* line 332: the while test, the one place where main reads the event,
\* finds it set
StopSeen(t) ==
    /\ pc[t] = "top"
    /\ stop_event

LoopExit(t) ==
    /\ StopSeen(t)
    /\ End(t, "cancelled")
    /\ UNCHANGED << Env, Gui, used_file, pinned, embargo, corrupt, resolver >>

\* lines 337-340: strptime parses every value of the map
AllDatesValid(used) == \A name \in DOMAIN used : ValidDate(used[name])

\* lines 332-342: the event is clear; step 1, clean and save
CleanUp(t) ==
    /\ pc[t] = "top"
    /\ ~stop_event
    /\ AllDatesValid(used_collections[t])
    /\ LET cleaned == CleanExpired(used_collections[t], clock) IN
        /\ used_collections' = [used_collections EXCEPT ![t] = cleaned]
        /\ used_file' = cleaned
    /\ corrupt' = corrupt \ {"used"}
    /\ pass' = [pass EXCEPT ![t] = EmptyDict]
    /\ cycle_exemptions' = [cycle_exemptions EXCEPT ![t] =
                                IF "exemptions" \in corrupt THEN <<>> ELSE exemptions_file]
    /\ pc' = [pc EXCEPT ![t] = "new_episodes"]
    /\ UNCHANGED << Env, Gui, pinned, user_exemptions, previous_pinned, reset_needed,
                    lib_idx, retry, embargo, sleep_left, outcome, resolver >>

\* lines 337-340 and 442-447: strptime raises ValueError on a value that is
\* no date; the except clause outside the while loop logs it and main ends
CleanUpFails(t) ==
    /\ pc[t] = "top"
    /\ ~stop_event
    /\ ~AllDatesValid(used_collections[t])
    /\ End(t, "cycle")
    /\ UNCHANGED << Env, Gui, used_file, pinned, embargo, corrupt, resolver >>

\* line 345, handle_new_episodes_pinning: the calls on the sentinels in
\* failed raise and leave them as they were
HandleNewEpisodes(t) ==
    /\ pc[t] = "new_episodes"
    /\ \E failed \in SUBSET Sentinels(Libraries) :
        /\ Cardinality(failed) <= budget
        /\ budget' = budget - Cardinality(failed)
        /\ pinned' = IF AlwaysPinNewEpisodes
                     THEN pinned \cup (Sentinels(Libraries) \ failed)
                     ELSE pinned \ (Sentinels(Libraries) \ failed)
    /\ pc' = [pc EXCEPT ![t] = "unpin"]
    /\ UNCHANGED << clock, slots, config_file, exemptions_file, Gui, used_file,
                    used_collections, user_exemptions, previous_pinned, reset_needed,
                    lib_idx, pass, retry, embargo, Rest >>
    /\ UNCHANGED cycle_exemptions

\* lines 348-353, unpin_collections: the collections in failed stay
\* promoted (their demote, or the access to their library, raised)
Unpin(t) ==
    /\ pc[t] = "unpin"
    /\ \E failed \in SUBSET (UnpinTargets(Libraries, AlwaysPinNewEpisodes) \cap pinned) :
        /\ Cardinality(failed) <= budget
        /\ budget' = budget - Cardinality(failed)
        /\ pinned' = pinned \ (UnpinTargets(Libraries, AlwaysPinNewEpisodes) \ failed)
    /\ previous_pinned' = [previous_pinned EXCEPT ![t] = {}]
    /\ reset_needed' = [reset_needed EXCEPT ![t] = FALSE]
    /\ lib_idx' = [lib_idx EXCEPT ![t] = 1]
    /\ pc' = [pc EXCEPT ![t] = IF Libraries = <<>> THEN "after_libs" ELSE "libs"]
    /\ UNCHANGED << clock, slots, config_file, exemptions_file, Gui, used_file,
                    used_collections, user_exemptions, pass, retry, embargo, Rest >>
    /\ UNCHANGED cycle_exemptions

PassEntry(result, limit, selected) ==
    [result |-> result, limit |-> limit, selected |-> selected]

NextLibrary_Abort(t) ==
    /\ lib_idx' = [lib_idx EXCEPT ![t] = lib_idx[t] + 1]
    /\ pc' = [pc EXCEPT ![t] = "after_libs"]

\* the for loop of line 355 takes the next library, or is exhausted
NextLibrary(t) ==
    /\ lib_idx' = [lib_idx EXCEPT ![t] = lib_idx[t] + 1]
    /\ pc' = [pc EXCEPT ![t] = IF lib_idx[t] + 1 > Len(Libraries) THEN "after_libs" ELSE "libs"]

\* a pin loop that enters each promoted collection in the cooldown map at once
UsedAfterPins_Eager(used, appended) ==
    [name \in DOMAIN used \cup {c[2] : c \in appended} |->
        IF name \in DOMAIN used THEN used[name] ELSE strftime_date(0)]

\* lines 401-409: the pin loop appends to previous_pinned and does not touch
\* used_collections, which line 430 updates after the for loop
UsedAfterPins(used, appended) == used

\* a shortage that lets the for loop go on with the next library
Break_Continue(t) == NextLibrary(t)

\* line 386: break leaves the for loop where it stands
Break(t) ==
    /\ lib_idx' = lib_idx
    /\ pc' = [pc EXCEPT ![t] = "after_libs"]

Appended_All(library_name, collections_to_pin, ok) ==
    {<<library_name, collections_to_pin[i].title>> : i \in DOMAIN collections_to_pin}

\* lines 401-409: previous_pinned.append(collection) follows the two promote
\* calls inside the try, so it runs for the collections in ok alone
Appended(library_name, collections_to_pin, ok) ==
    {<<library_name, collections_to_pin[i].title>> : i \in ok}

\* lines 355-412: one iteration of the for loop over libraries
ProcessLibrary(t) ==
    /\ pc[t] = "libs"
    /\ \E collections \in Listings(Libraries[lib_idx[t]]) :
       LET library_name == Libraries[lib_idx[t]]
           final_limit == FinalLimit(Config, library_name, Now)
           valid_collections ==
               ValidCollections(collections, MinItems, used_collections[t], user_exemptions[t])
           raises == Raises(get_current_time_block(Config, library_name, Now))
       IN
       \/ \* lines 411-412: the library could not be read, or line 362 raised
          /\ raises \/ budget > 0
          /\ budget' = IF raises THEN budget ELSE budget - 1
          /\ pass' = [pass EXCEPT ![t] = Put(@, library_name, PassEntry("error", 0, <<>>))]
          /\ NextLibrary(t)
          /\ UNCHANGED << pinned, previous_pinned, reset_needed, used_collections >>
       \/ \* lines 380-386
          /\ ~raises
          /\ Insufficient(valid_collections, final_limit)
          /\ pass' = [pass EXCEPT ![t] =
                        Put(@, library_name, PassEntry("insufficient", final_limit, <<>>))]
          /\ reset_needed' = [reset_needed EXCEPT ![t] = TRUE]
          /\ Break(t)
          /\ UNCHANGED << budget, pinned, previous_pinned, used_collections >>
       \/ \* lines 388-390
          /\ ~raises
          /\ ~Insufficient(valid_collections, final_limit)
          /\ valid_collections = <<>>
          /\ pass' = [pass EXCEPT ![t] =
                        Put(@, library_name, PassEntry("skipped", final_limit, <<>>))]
          /\ NextLibrary(t)
          /\ UNCHANGED << budget, pinned, previous_pinned, reset_needed, used_collections >>
       \/ \* lines 392-409: sample, then promote each; ok are the calls that
          \* returned, half the ones that raised after promoteHome took effect
          /\ ~raises
          /\ ~Insufficient(valid_collections, final_limit)
          /\ valid_collections # <<>>
          /\ \E collections_to_pin \in
                   Sample(valid_collections, PinLimit(valid_collections, final_limit)) :
             \E ok \in SUBSET DOMAIN collections_to_pin :
             \E half \in SUBSET (DOMAIN collections_to_pin \ ok) :
                /\ Len(collections_to_pin) - Cardinality(ok) <= budget
                /\ budget' = budget - (Len(collections_to_pin) - Cardinality(ok))
                /\ pinned' = pinned \cup
                      {<<library_name, collections_to_pin[i].title>> : i \in ok \cup half}
                /\ previous_pinned' = [previous_pinned EXCEPT ![t] =
                      @ \cup Appended(library_name, collections_to_pin, ok)]
                /\ used_collections' = [used_collections EXCEPT ![t] =
                      UsedAfterPins(@, Appended(library_name, collections_to_pin, ok))]
                /\ pass' = [pass EXCEPT ![t] =
                      Put(@, library_name,
                          PassEntry("selected", final_limit, collections_to_pin))]
          /\ NextLibrary(t)
          /\ UNCHANGED reset_needed
    /\ UNCHANGED << clock, slots, config_file, exemptions_file, Gui, used_file,
                    user_exemptions, retry, embargo, Rest >>
    /\ UNCHANGED cycle_exemptions

InsufficientLibrary(t) ==
    CHOOSE lib \in DOMAIN pass[t] : pass[t][lib].result = "insufficient"

\* lines 415-418: gui_instance.reset_exclusion_list() empties the document
ResetBranch(t) ==
    /\ pc[t] = "after_libs"
    /\ reset_needed[t]
    /\ LET docs == reset_exclusion_list_file([used |-> used_file,
                                              exemptions |-> exemptions_file]) IN
        /\ used_file' = docs.used
        /\ exemptions_file' = docs.exemptions
    /\ retry' = [retry EXCEPT ![t] = InsufficientLibrary(t)]
    /\ embargo' = [ti \in AllTitles |-> 0]
    /\ corrupt' = corrupt \ {"used"}
    /\ pc' = [pc EXCEPT ![t] = "reload"]
    /\ UNCHANGED << clock, budget, slots, config_file, Gui, pinned, used_collections,
                    user_exemptions, previous_pinned, reset_needed, lib_idx, pass,
                    sleep_left, outcome, resolver >>
    /\ UNCHANGED cycle_exemptions

\* lines 419 and 425: reload the document, restart the while loop
Reload(t) ==
    /\ pc[t] = "reload"
    /\ "used" \notin corrupt
    /\ used_collections' = [used_collections EXCEPT ![t] = used_file]
    /\ pc' = [pc EXCEPT ![t] = "top"]
    /\ UNCHANGED << Env, Gui, used_file, pinned, user_exemptions, previous_pinned,
                    reset_needed, lib_idx, pass, retry, embargo, Rest >>
    /\ UNCHANGED cycle_exemptions

\* lines 419 and 442-447: json.load raises on a document it cannot parse
ReloadFails(t) ==
    /\ pc[t] = "reload"
    /\ "used" \in corrupt
    /\ End(t, "cycle")
    /\ UNCHANGED << Env, Gui, used_file, pinned, embargo, corrupt, resolver >>

\* lines 427-439: step 5, record the pinned collections; then the sleep begins
Record(t) ==
    /\ pc[t] = "after_libs"
    /\ ~reset_needed[t]
    /\ IF previous_pinned[t] # {}
       THEN LET updated == UpdateExclusionList(previous_pinned[t], used_collections[t],
                                               ExclusionDays, clock) IN
            /\ used_collections' = [used_collections EXCEPT ![t] = updated]
            /\ used_file' = updated
            /\ corrupt' = corrupt \ {"used"}
            /\ embargo' = [ti \in AllTitles |->
                             IF ti \in {c[2] : c \in previous_pinned[t]}
                             THEN clock + ExclusionDays ELSE embargo[ti]]
       ELSE UNCHANGED << used_collections, used_file, embargo, corrupt >>
    /\ retry' = [retry EXCEPT ![t] = "None"]
    /\ sleep_left' = [sleep_left EXCEPT ![t] = SleepSlices]
    /\ pc' = [pc EXCEPT ![t] = "sleep"]
    /\ UNCHANGED << Env, Gui, pinned, user_exemptions, previous_pinned, reset_needed,
                    lib_idx, pass, outcome, resolver >>
    /\ UNCHANGED cycle_exemptions

\* line 440: one polling slice of time.sleep(pinning_interval) passes and
\* the call has not returned; nothing is tested meanwhile
Sleeping(t) ==
    /\ pc[t] = "sleep"
    /\ sleep_left[t] > 1
    /\ sleep_left' = [sleep_left EXCEPT ![t] = @ - 1]
    /\ UNCHANGED << Env, Gui, used_file, pinned, embargo, corrupt, outcome, resolver,
                    pc, used_collections, user_exemptions, previous_pinned, reset_needed,
                    lib_idx, pass, retry >>
    /\ UNCHANGED cycle_exemptions

\* line 440: the last slice passes and time.sleep(pinning_interval) returns
Wake(t) ==
    /\ pc[t] = "sleep"
    /\ sleep_left[t] = 1
    /\ sleep_left' = [sleep_left EXCEPT ![t] = 0]
    /\ pc' = [pc EXCEPT ![t] = "top"]
    /\ UNCHANGED << Env, Gui, used_file, pinned, used_collections, user_exemptions,
                    previous_pinned, reset_needed, lib_idx, pass, retry, embargo,
                    corrupt, outcome, resolver >>
    /\ UNCHANGED cycle_exemptions

LoopVars == << pc, used_collections, user_exemptions, previous_pinned, reset_needed,
               lib_idx, pass, retry >>

\* ------------------------------------------------------------ DynamiXGUI
\* start_script: a thread slot that is free stands for the new Thread object
FreeThread == CHOOSE t \in 1..slots : ~Alive(t) /\ \A u \in 1..slots : ~Alive(u) => t <= u

start_script ==
    /\ gui.pc = "idle"
    /\ IF script_thread = NoThread \/ ~Alive(script_thread)
       THEN /\ \E t \in 1..slots : ~Alive(t)
            /\ stop_event' = FALSE
            /\ script_thread' = FreeThread
            /\ pc' = [pc EXCEPT ![FreeThread] = "start"]
            /\ outcome' = [outcome EXCEPT ![FreeThread] = NotEnded]
       ELSE UNCHANGED << stop_event, script_thread, pc, outcome >>
    /\ UNCHANGED << Env, used_file, pinned, gui, used_collections, user_exemptions,
                    previous_pinned, reset_needed, lib_idx, pass, retry, embargo,
                    sleep_left, corrupt, resolver >>
    /\ UNCHANGED cycle_exemptions

\* stop_script up to the call of join(timeout=10)
stop_script ==
    /\ gui.pc = "idle"
    /\ IF script_thread # NoThread /\ Alive(script_thread)
       THEN /\ stop_event' = TRUE
            /\ gui' = [gui EXCEPT !.pc = "join"]
       ELSE UNCHANGED << stop_event, gui >>
    /\ UNCHANGED << Env, used_file, pinned, script_thread, embargo, LoopVars, Rest >>
    /\ UNCHANGED cycle_exemptions

\* stop_script from the return of join: the thread has ended, or the ten
\* seconds have passed with the thread still alive; finally script_thread = None
stop_script_joined ==
    /\ gui.pc = "join"
    /\ script_thread' = NoThread
    /\ gui' = GuiIdle
    /\ UNCHANGED << Env, used_file, pinned, stop_event, embargo, LoopVars, Rest >>
    /\ UNCHANGED cycle_exemptions

\* remove_exclusion_list_item, lines 1352-1362: load the document and
\* delete the selected title from the loaded copy
remove_exclusion_list_item(title) ==
    /\ gui.pc = "idle"
    /\ budget > 0
    /\ title \in DOMAIN used_file
    /\ budget' = budget - 1
    /\ gui' = [pc |-> "remove",
               buf |-> [n \in DOMAIN used_file \ {title} |-> used_file[n]],
               title |-> title]
    /\ UNCHANGED << clock, slots, config_file, exemptions_file, used_file, pinned,
                    stop_event, script_thread, embargo, LoopVars, Rest >>
    /\ UNCHANGED cycle_exemptions

\* remove_exclusion_list_item, lines 1364-1366: save the copy
remove_exclusion_list_save ==
    /\ gui.pc = "remove"
    /\ used_file' = gui.buf
    /\ embargo' = [embargo EXCEPT ![gui.title] = Removed]
    /\ corrupt' = corrupt \ {"used"}
    /\ gui' = GuiIdle
    /\ UNCHANGED << Env, pinned, stop_event, script_thread, LoopVars, sleep_left,
                    outcome, resolver >>
    /\ UNCHANGED cycle_exemptions

\* the Reset List button
reset_exclusion_list ==
    /\ gui.pc = "idle"
    /\ budget > 0
    /\ budget' = budget - 1
    /\ LET docs == reset_exclusion_list_file([used |-> used_file,
                                              exemptions |-> exemptions_file]) IN
        /\ used_file' = docs.used
        /\ exemptions_file' = docs.exemptions
    /\ embargo' = [ti \in AllTitles |-> Removed]
    /\ corrupt' = corrupt \ {"used"}
    /\ UNCHANGED << clock, slots, config_file, pinned, Gui, LoopVars,
                    sleep_left, outcome, resolver >>
    /\ UNCHANGED cycle_exemptions

\* the Save Exemptions button
save_user_exemptions_gui(exemptions) ==
    /\ gui.pc = "idle"
    /\ budget > 0
    /\ budget' = budget - 1
    /\ exemptions_file' = exemptions
    /\ corrupt' = corrupt \ {"exemptions"}
    /\ UNCHANGED << clock, slots, config_file, used_file, pinned, Gui, embargo, LoopVars,
                    sleep_left, outcome, resolver >>
    /\ UNCHANGED cycle_exemptions

\* -------------------------------------------------- the persisted documents
DocumentEdits == {"used unparseable", "used bad date", "exemptions unparseable"}

\* used_collections.json or user_exemptions.json is changed outside the
\* program, or left half-written: its text is no JSON, or the cooldown of a
\* title is no date
DocumentEdited(edit) ==
    /\ budget > 0
    /\ budget' = budget - 1
    /\ \/ /\ edit = "used unparseable"
          /\ corrupt' = corrupt \cup {"used"}
          /\ used_file' = EmptyDict
          /\ embargo' = [ti \in AllTitles |-> 0]
          /\ UNCHANGED exemptions_file
       \/ /\ edit = "used bad date"
          /\ corrupt' = corrupt \ {"used"}
          /\ used_file' = [name \in {"A"} |-> BadDate]
          /\ embargo' = [ti \in AllTitles |-> 0]
          /\ UNCHANGED exemptions_file
       \/ /\ edit = "exemptions unparseable"
          /\ corrupt' = corrupt \cup {"exemptions"}
          /\ exemptions_file' = <<>>
          /\ UNCHANGED << used_file, embargo >>
    /\ UNCHANGED << clock, slots, config_file, pinned, Gui, LoopVars, sleep_left,
                    outcome, resolver >>
    /\ UNCHANGED cycle_exemptions

\* ------------------------------------------------------------ the clock
\* midnight passes
Tick ==
    /\ clock < MaxDay
    /\ clock' = clock + 1
    /\ UNCHANGED << budget, slots, config_file, exemptions_file, used_file, pinned, Gui,
                    embargo, LoopVars, Rest >>
    /\ UNCHANGED cycle_exemptions

Next ==
    \/ \E t \in Threads : LoadConfigFails(t)
    \/ \E t \in Threads : ConnectFails(t)
    \/ \E t \in Threads : LoadStateFails(t)
    \/ \E t \in Threads : CleanUpFails(t)
    \/ \E t \in Threads : ReloadFails(t)
    \/ \E t \in Threads : Sleeping(t)
    \/ \E edit \in DocumentEdits : DocumentEdited(edit)
    \/ \E t \in Threads : Load(t)
    \/ \E t \in Threads : LoopExit(t)
    \/ \E t \in Threads : CleanUp(t)
    \/ \E t \in Threads : HandleNewEpisodes(t)
    \/ \E t \in Threads : Unpin(t)
    \/ \E t \in Threads : ProcessLibrary(t)
    \/ \E t \in Threads : ResetBranch(t)
    \/ \E t \in Threads : Reload(t)
    \/ \E t \in Threads : Record(t)
    \/ \E t \in Threads : Wake(t)
    \/ start_script
    \/ stop_script
    \/ stop_script_joined
    \/ \E title \in AllTitles : remove_exclusion_list_item(title)
    \/ remove_exclusion_list_save
    \/ reset_exclusion_list
    \/ \E exemptions \in ExemptionChoices : save_user_exemptions_gui(exemptions)
    \/ Tick

Spec == Init /\ [][Next]_vars

NextThreads ==
    \/ \E t \in Threads : ConnectFails(t)
    \/ \E t \in Threads : Sleeping(t)
    \/ \E t \in Threads : Load(t)
    \/ \E t \in Threads : LoopExit(t)
    \/ \E t \in Threads : CleanUp(t)
    \/ \E t \in Threads : HandleNewEpisodes(t)
    \/ \E t \in Threads : Unpin(t)
    \/ \E t \in Threads : ProcessLibrary(t)
    \/ \E t \in Threads : ResetBranch(t)
    \/ \E t \in Threads : Reload(t)
    \/ \E t \in Threads : Record(t)
    \/ \E t \in Threads : Wake(t)
    \/ start_script
    \/ stop_script
    \/ stop_script_joined

SpecThreads == InitThreads /\ [][NextThreads]_vars

\* ------------------------------------- get_current_time_block on its own
\* the "details" objects a schedule may hold: well-formed ones, one without
\* a limit, one without a start_time and one without an end_time
ResolverTimes == {T0600, T1800, T2300}

ResolverDetails ==
    [start_time : ResolverTimes, end_time : ResolverTimes, limit : {1, 3}]
      \cup { [start_time |-> T0600, end_time |-> T1800],
             [end_time |-> T1800, limit |-> 1],
             [start_time |-> T0600, limit |-> 1] }

BlockNames == <<"B1", "B2", "B3", "B4">>

\* the entries a weekday may have: an object of up to MaxBlocks blocks in
\* document order, or a value that is no object
ResolverEntries ==
    { Dict([i \in DOMAIN ds |-> [name |-> BlockNames[i], details |-> ds[i]]]) :
        ds \in UNION { [1..n -> ResolverDetails] : n \in 0..MaxBlocks } }
      \cup {NotADict}

\* 05:00, 06:00, 08:00, 18:00 and 23:30
ResolverMinutes == {5 * 60, 6 * 60, 8 * 60, 18 * 60, 23 * 60 + 30}

\* the configuration of a call: the schedule of Monday, and the default
\* limit of the library when has_default
ResolverConfig(r) ==
    [ libraries_settings |-> [Movies |-> [time_blocks |-> [Monday |-> r.blocks]]],
      default_limits |-> IF r.has_default THEN [Movies |-> 2] ELSE EmptyDict ]

InitResolver ==
    /\ InitWith(0, 1)
    /\ config_file = ConfigFile(TRUE)
    /\ resolver \in [ blocks : ResolverEntries, has_default : BOOLEAN,
                       minute : ResolverMinutes, day : {0, 1}, calls : {<< >>} ]

\* one more call of get_current_time_block(config, "Movies") at the same time
Resolve ==
    /\ Len(resolver.calls) < 2
    /\ resolver' = [resolver EXCEPT !.calls =
          Append(@, get_current_time_block(ResolverConfig(resolver), "Movies",
                                           [date |-> resolver.day,
                                            minute |-> resolver.minute]))]
    /\ UNCHANGED << Env, Gui, used_file, pinned, embargo, LoopVars, sleep_left, corrupt,
                    outcome >>
    /\ UNCHANGED cycle_exemptions

NextResolver == Resolve

SpecResolver == InitResolver /\ [][NextResolver]_vars

\* ------------------------------------------------- the loop, scheduled
\* one automation thread whose remote calls all return and whose documents
\* always parse
InitFair == InitWith(0, 1) /\ resolver = NoCall

\* the steps of main() in thread t
ThreadStep(t) ==
    \/ LoadConfigFails(t)
    \/ ConnectFails(t)
    \/ Load(t)
    \/ LoopExit(t)
    \/ CleanUp(t)
    \/ HandleNewEpisodes(t)
    \/ Unpin(t)
    \/ ProcessLibrary(t)
    \/ ResetBranch(t)
    \/ Reload(t)
    \/ Record(t)
    \/ Sleeping(t)
    \/ Wake(t)

NextFair ==
    \/ \E t \in Threads : ThreadStep(t)
    \/ start_script
    \/ stop_script
    \/ stop_script_joined
    \/ Tick

\* a thread that can take a step is scheduled: a call that returns lets
\* main go on, and time.sleep returns when its interval is over
SpecFair == InitFair /\ [][NextFair]_vars /\ \A t \in Threads : WF_vars(ThreadStep(t))

\* ------------------------------------------------------- restart_program
\* thread.join() on what self.script_thread holds: None has no join
Join(thread) == IF thread = NoThread THEN "AttributeError" ELSE "returned"

\* lines 1649-1654: the test of line 1653; without a live thread the
\* method goes straight to line 1662
restart_program ==
    /\ gui.pc = "idle"
    /\ gui' = [gui EXCEPT !.pc = IF script_thread # NoThread /\ Alive(script_thread)
                                 THEN "restart_stop" ELSE "execl"]
    /\ UNCHANGED << Env, used_file, pinned, stop_event, script_thread, embargo, LoopVars,
                    Rest, cycle_exemptions >>

\* line 1656, self.stop_script() up to its join(timeout=10); if the thread
\* has ended since line 1653, stop_script only logs, the join of line 1657
\* returns at once and the method is at line 1662
restart_stop_script ==
    /\ gui.pc = "restart_stop"
    /\ IF script_thread # NoThread /\ Alive(script_thread)
       THEN /\ stop_event' = TRUE
            /\ gui' = [gui EXCEPT !.pc = "restart_join"]
       ELSE /\ gui' = [gui EXCEPT !.pc = "execl"]
            /\ UNCHANGED stop_event
    /\ UNCHANGED << Env, used_file, pinned, script_thread, embargo, LoopVars, Rest,
                    cycle_exemptions >>

\* stop_script from the return of its join: finally script_thread = None;
\* then line 1657, self.script_thread.join()
restart_stop_script_joined ==
    /\ gui.pc = "restart_join"
    /\ script_thread' = NoThread
    /\ gui' = [gui EXCEPT !.pc = IF Join(script_thread') = "returned"
                                 THEN "execl" ELSE "raised"]
    /\ UNCHANGED << Env, used_file, pinned, stop_event, embargo, LoopVars, Rest,
                    cycle_exemptions >>

\* the exception leaves the callback; Tk reports it and the window lives on
restart_program_raised ==
    /\ gui.pc = "raised"
    /\ gui' = GuiIdle
    /\ UNCHANGED << Env, used_file, pinned, stop_event, script_thread, embargo, LoopVars,
                    Rest, cycle_exemptions >>

\* lines 1661-1664, os.execl: a new process image; what the old process
\* held in memory is gone, its threads with it, the files and the server
\* are as they were
execl ==
    /\ gui.pc = "execl"
    /\ gui' = GuiIdle
    /\ stop_event' = FALSE
    /\ script_thread' = NoThread
    /\ pc' = [t \in Threads |-> "dead"]
    /\ used_collections' = [t \in Threads |-> EmptyDict]
    /\ user_exemptions' = [t \in Threads |-> <<>>]
    /\ previous_pinned' = [t \in Threads |-> {}]
    /\ reset_needed' = [t \in Threads |-> FALSE]
    /\ lib_idx' = [t \in Threads |-> 0]
    /\ pass' = [t \in Threads |-> EmptyDict]
    /\ retry' = [t \in Threads |-> "None"]
    /\ sleep_left' = [t \in Threads |-> 0]
    /\ outcome' = [t \in Threads |-> NotEnded]
    /\ cycle_exemptions' = [t \in Threads |-> <<>>]
    /\ UNCHANGED << Env, used_file, pinned, embargo, corrupt, resolver >>

NextRestart ==
    \/ \E t \in Threads : ThreadStep(t)
    \/ start_script
    \/ stop_script
    \/ stop_script_joined
    \/ restart_program
    \/ restart_stop_script
    \/ restart_stop_script_joined
    \/ restart_program_raised
    \/ execl
    \/ Tick

SpecRestart == InitFair /\ [][NextRestart]_vars

\* ------------------------------------------------- the Exclusion List tab
\* texts are sequences of characters; the tail of a row is kept in pieces
\* that hold no " ("
TitleChars == {"a", " ", "("}

TitleTexts == UNION { [1..n -> TitleChars] : n \in 1..MaxTitleLen }

ExpiryText == "2024-01-01"

\* line 1393: f"{collection_name} (Expires: {expiration_date})"
RowText(title, expiration_date) ==
    title \o << " ", "(", "Expires: ", expiration_date, ")" >>

\* refresh_exclusion_list, lines 1389-1393: one row per entry of the document
Rows(used) == [title \in DOMAIN used |-> RowText(title, used[title])]

\* line 1360, item_text.split(" (")[0]: the text before the first " ("
collection_name(item_text) ==
    LET cut == { i \in 1..(Len(item_text) - 1) :
                    item_text[i] = " " /\ item_text[i + 1] = "(" }
    IN  IF cut = {} THEN item_text
        ELSE SubSeq(item_text, 1, (CHOOSE i \in cut : \A j \in cut : i <= j) - 1)

\* remove_exclusion_list_item, lines 1357-1364, on the row that was selected
RemoveSelected(used, item_text) ==
    LET name == collection_name(item_text)
    IN  IF name \in DOMAIN used
        THEN [other \in DOMAIN used \ {name} |-> used[other]]
        ELSE used

\* cooldown documents of one or two entries
RowDocuments ==
    { [title \in {a, b} |-> ExpiryText] : a \in TitleTexts, b \in TitleTexts }

InitRows ==
    /\ InitWith(0, 1)
    /\ config_file = ConfigFile(TRUE)
    /\ resolver \in UNION { { [used |-> used, selected |-> title, calls |-> << >>] :
                                  title \in DOMAIN used } : used \in RowDocuments }

\* the user selects the row of resolver.selected and presses Remove Selected
RemoveRow ==
    /\ resolver.calls = << >>
    /\ resolver' = [resolver EXCEPT !.calls =
          << RemoveSelected(resolver.used, Rows(resolver.used)[resolver.selected]) >>]
    /\ UNCHANGED << Env, Gui, used_file, pinned, embargo, LoopVars, sleep_left, corrupt,
                    outcome, cycle_exemptions >>

NextRows == RemoveRow

SpecRows == InitRows /\ [][NextRows]_vars

\* ------------------------------------------------------------ load_config
\* JSON values that are no object: a list and null
JsonNull == [type |-> "null", items |-> <<>>]

NonDicts == {NotADict, JsonNull}

\* isinstance(value, dict)
IsDict(value) == value \notin NonDicts

\* a sanitizer that gives up the whole schedule when one weekday is malformed
sanitize_time_blocks_DropsDays(time_blocks) ==
    IF ~IsDict(time_blocks) \/ \E day \in DOMAIN time_blocks : ~IsDict(time_blocks[day])
    THEN EmptyDict
    ELSE time_blocks

\* lines 45-65
sanitize_time_blocks(time_blocks) ==
    IF ~IsDict(time_blocks)
    THEN EmptyDict
    ELSE [day \in DOMAIN time_blocks |->
            IF ~IsDict(time_blocks[day]) THEN Dict(<<>>) ELSE time_blocks[day]]

\* lines 84-95, on the parsed document: every library's settings get their
\* time_blocks sanitized, {} standing in for a missing key
load_config(config) ==
    LET given == Get(config, "libraries_settings", EmptyDict)
        libraries_settings == IF ~IsDict(given) THEN EmptyDict ELSE given
    IN  Put(config, "libraries_settings",
            [library \in DOMAIN libraries_settings |->
                Put(libraries_settings[library], "time_blocks",
                    sanitize_time_blocks(Get(libraries_settings[library],
                                             "time_blocks", EmptyDict)))])

\* the values a weekday may have in the document
RawEntries ==
    NonDicts \cup { Dict(<<>>), Day(1),
                    Dict(<< Block("Day", T0600, T1800, 2), Block("Evening", T1800, T2300, 1) >>) }

\* the values time_blocks may have in the document
RawTimeBlocks ==
    NonDicts \cup UNION { [days -> RawEntries] : days \in SUBSET {"Monday", "Tuesday"} }

\* what the second library's time_blocks may be
RawTimeBlocks_TV ==
    [ list |-> NotADict, null |-> JsonNull, empty |-> EmptyDict,
      good |-> [Monday |-> Day(1)], bad |-> [Monday |-> JsonNull, Tuesday |-> Day(1)] ]

\* the parsed document with the given time_blocks; "absent" leaves the key out
RawConfig(movies, tv) ==
    [ libraries |-> <<"Movies", "TV">>,
      libraries_settings |->
          [ Movies |-> [time_blocks |-> movies],
            TV |-> IF tv = "absent" THEN EmptyDict ELSE [time_blocks |-> RawTimeBlocks_TV[tv]] ] ]

InitSanitizer ==
    /\ InitWith(0, 1)
    /\ config_file = ConfigFile(TRUE)
    /\ resolver \in [ movies : RawTimeBlocks, tv : DOMAIN RawTimeBlocks_TV \cup {"absent"},
                       calls : {<< >>} ]

\* load_config on the document, then on a document holding what it returned
Sanitize ==
    /\ Len(resolver.calls) < 2
    /\ resolver' = [resolver EXCEPT !.calls =
          Append(@, IF @ = << >>
                    THEN load_config(RawConfig(resolver.movies, resolver.tv))
                    ELSE load_config(@[1]))]
    /\ UNCHANGED << Env, Gui, used_file, pinned, embargo, LoopVars, sleep_left, corrupt,
                    outcome, cycle_exemptions >>

NextSanitizer == Sanitize

SpecSanitizer == InitSanitizer /\ [][NextSanitizer]_vars

\* ================================================================ properties
InPass(t) == pc[t] \in {"libs", "after_libs"}

InCycle(t) == pc[t] \in {"new_episodes", "unpin", "libs", "after_libs", "reload"}

\* the eligible set of a library for thread t, from the maps t holds
Eligible(t, lib) ==
    { c \in Range(PlexCollections[lib]) :
        /\ c.items >= MinItems
        /\ c.title \notin DOMAIN used_collections[t]
        /\ c.title \notin Range(user_exemptions[t]) }

WithEnoughItems(lib) == { c \in Range(PlexCollections[lib]) : c.items >= MinItems }

\* thread t takes the step that processes one library
ProcessesLibrary(t) == pc[t] = "libs" /\ pass'[t] # pass[t]

Processed(t) == CHOOSE lib \in DOMAIN pass'[t] : lib \notin DOMAIN pass[t]

\* C1: in every pass and for every library, no collection whose title is in
\* the cooldown map or in the exemption list the selection runs with is
\* selected or pinned
C1_NoExcludedOrExemptSelected ==
    \A t \in Threads : InPass(t) =>
        /\ \A lib \in DOMAIN pass[t] : \A i \in DOMAIN pass[t][lib].selected :
              /\ pass[t][lib].selected[i].title \notin DOMAIN used_collections[t]
              /\ pass[t][lib].selected[i].title \notin Range(user_exemptions[t])
        /\ \A c \in previous_pinned[t] :
              /\ c[2] \notin DOMAIN used_collections[t]
              /\ c[2] \notin Range(user_exemptions[t])

\* a library made a selection while one of its collections was on cooldown
C1_Witness ==
    \E t \in Threads :
        /\ pc[t] = "after_libs"
        /\ "Movies" \in DOMAIN pass[t]
        /\ pass[t]["Movies"].selected # <<>>
        /\ \E c \in WithEnoughItems("Movies") : c.title \in DOMAIN used_collections[t]

\* C2: when the eligible set has at least quota members, the selection is
\* exactly quota pairwise distinct members of it and no shortage is
\* signalled; with quota 0 it is empty
C2_ExactQuotaSelection ==
    \A t \in Threads : InPass(t) =>
        \A lib \in DOMAIN pass[t] :
            LET e == pass[t][lib] IN
            (e.result # "error" /\ Cardinality(Eligible(t, lib)) >= e.limit) =>
                /\ e.result # "insufficient"
                /\ Len(e.selected) = e.limit
                /\ \A i, j \in DOMAIN e.selected : i # j => e.selected[i] # e.selected[j]
                /\ Range(e.selected) \subseteq Eligible(t, lib)

\* one pass selected two collections for quota 2 and none for quota 0
C2_Witness ==
    \E t \in Threads :
        /\ pc[t] = "after_libs"
        /\ DOMAIN pass[t] = {"Movies", "TV"}
        /\ pass[t]["Movies"].limit = 2 /\ Len(pass[t]["Movies"].selected) = 2
        /\ pass[t]["TV"].limit = 0 /\ pass[t]["TV"].result = "selected"

\* C5: the cleanup step keeps exactly the entries whose expiry is strictly
\* after the current date, unchanged, and saves exactly that map
C5_CleanKeepsExactlyUnexpired ==
    [][ \A t \in Threads : (pc[t] = "top" /\ pc'[t] = "new_episodes") =>
          /\ DOMAIN used_collections'[t] =
                {n \in DOMAIN used_collections[t] :
                    strptime_date(used_collections[t][n]) > clock}
          /\ \A n \in DOMAIN used_collections'[t] :
                used_collections'[t][n] = used_collections[t][n]
          /\ used_file' = used_collections'[t] ]_vars

\* a cleanup dropped an entry that expires today and kept a later one
C5_Witness ==
    \E t \in Threads :
        /\ pc[t] = "new_episodes"
        /\ used_collections[t] # EmptyDict
        /\ used_file = used_collections[t]
        /\ \E ti \in AllTitles :
              embargo[ti] = clock /\ clock > 0 /\ ti \notin DOMAIN used_collections[t]

\* C6: the map is not touched between the cleanup and the end of the pass,
\* and the recording step of a pass without reset on date D overwrites it
\* with title -> D + exclusion_days for exactly the collections pinned in
\* the pass and saves that map
C6_RecordOverwritesPinned ==
    [][ \A t \in Threads :
          /\ (pc[t] \in {"new_episodes", "unpin", "libs"}) =>
                used_collections'[t] = used_collections[t]
          /\ (pc[t] = "after_libs" /\ pc'[t] = "sleep") =>
                LET P == {c[2] : c \in previous_pinned[t]} IN
                /\ DOMAIN used_collections'[t] = DOMAIN used_collections[t] \cup P
                /\ \A n \in P :
                      used_collections'[t][n] = strftime_date(clock + ExclusionDays)
                /\ \A n \in DOMAIN used_collections[t] \ P :
                      used_collections'[t][n] = used_collections[t][n]
                /\ P # {} => used_file' = used_collections'[t] ]_vars

\* the example: A(2), B(0), C(5), quota 2, nothing excluded or exempt
C6_Witness ==
    \E t \in Threads :
        /\ pc[t] = "sleep"
        /\ user_exemptions[t] = <<>>
        /\ pass[t]["Movies"].limit = 2
        /\ used_collections[t] = [n \in {"A", "C"} |-> strftime_date(clock + 3)]
        /\ used_file = used_collections[t]

\* C7: when a library's eligible set is smaller than its quota, the step
\* selects and pins nothing for it and marks the pass for a reset, and the
\* pass then records nothing
C7_ShortageSelectsNothing ==
    [][ \A t \in Threads :
          /\ ( /\ ProcessesLibrary(t)
               /\ pass'[t][Processed(t)].result # "error"
               /\ Cardinality(Eligible(t, Processed(t)))
                     < FinalLimit(Config, Processed(t), Now) ) =>
                /\ pass'[t][Processed(t)].result = "insufficient"
                /\ pass'[t][Processed(t)].selected = <<>>
                /\ pinned' = pinned
                /\ previous_pinned'[t] = previous_pinned[t]
                /\ reset_needed'[t]
                /\ pc'[t] = "after_libs"
          /\ (pc[t] = "after_libs" /\ reset_needed[t] /\ pc'[t] # pc[t]) =>
                /\ pc'[t] = "reload"
                /\ used_collections'[t] = used_collections[t]
                /\ used_file' = EmptyDict ]_vars

\* a library with a positive quota came up short
C7_Witness ==
    \E t \in Threads :
        /\ pc[t] = "after_libs"
        /\ reset_needed[t]
        /\ \E lib \in DOMAIN pass[t] :
              pass[t][lib].result = "insufficient" /\ Eligible(t, lib) # {}

\* C8: a pass that follows an exclusion-list reset never itself ends in a reset
C8_NoTwoResetsInARow ==
    \A t \in Threads : ~(pc[t] = "after_libs" /\ reset_needed[t] /\ retry[t] # "None")

C10_QuotaBoundsPinnedAtSleep ==
    \A t \in Threads : pc[t] = "sleep" =>
        \A lib \in DOMAIN pass[t] :
            pass[t][lib].result # "error" =>
                Cardinality({c \in pinned : c[1] = lib /\ ~IsSentinel(c[2])})
                    <= pass[t][lib].limit

\* C3: a title whose cooldown was recorded and not revoked is not selected
\* before the cooldown's expiry date
C3_CooldownRespected ==
    [][ \A t \in Threads : ProcessesLibrary(t) =>
          \A i \in DOMAIN pass'[t][Processed(t)].selected :
              embargo[pass'[t][Processed(t)].selected[i].title] <= clock ]_vars

\* C4: no two automation loops are ever inside a cycle at once
C4_AtMostOneLoop ==
    Cardinality({t \in Threads : InCycle(t)}) <= 1

\* C11: once the cancellation signal is set while the loop sleeps, the sleep
\* ends with the polling slice in progress, and no cycle begins while the
\* signal stays set
C11_CancelInterruptsSleep ==
    [][ \A t \in Threads :
          /\ (pc[t] = "sleep" /\ stop_event /\ sleep_left'[t] # sleep_left[t]) =>
                pc'[t] # "sleep"
          /\ (pc[t] \in {"sleep", "top"} /\ stop_event /\ stop_event') =>
                pc'[t] \in {"sleep", "top", "dead"} ]_vars

\* C12: once main() is inside its while loop, it ends only by finding the
\* cancellation signal set at the loop test
C12_OnlyCancellationEndsLoop ==
    [][ \A t \in Threads :
          (pc[t] \notin {"dead", "start"} /\ pc'[t] = "dead") =>
              (pc[t] = "top" /\ stop_event) ]_vars

\* C13: with a configuration and a connection, main() reaches its loop
\* whatever the two documents hold: a document that cannot be parsed loads
\* as the empty map, respectively the empty list
C13_LoadsFailSoft ==
    [][ \A t \in Threads :
          ( /\ pc[t] = "start" /\ pc'[t] # "start"
            /\ outcome'[t].cause \notin {"config", "connect"} ) =>
              /\ pc'[t] = "top"
              /\ used_collections'[t] =
                    (IF "used" \in corrupt THEN EmptyDict ELSE used_file)
              /\ user_exemptions'[t] =
                    (IF "exemptions" \in corrupt THEN <<>> ELSE exemptions_file) ]_vars

\* C14: with no configuration main() never gets past its start, and a start
\* that fails on the configuration or on the connection ends main() without
\* unpinning, pinning or writing the cooldown document
C14_NoCycleWithoutStart ==
    /\ [](Config = EmptyDict => \A t \in Threads : pc[t] \in {"dead", "start"})
    /\ [][ \A t \in Threads :
             (pc[t] = "start" /\ outcome'[t].cause \in {"config", "connect"}) =>
                 /\ pc'[t] = "dead"
                 /\ pinned' = pinned
                 /\ used_file' = used_file
                 /\ corrupt' = corrupt ]_vars

\* a restart failed on the connection while collections of an earlier run
\* were still promoted
C14_Witness ==
    \E t \in Threads :
        /\ outcome[t].cause = "connect"
        /\ pc[t] = "dead"
        /\ pinned # {}
        /\ used_file # EmptyDict

\* C15: a run of main() that ended on a missing configuration or a failed
\* connection hands its caller an outcome other than the one of a run that
\* ended on cancellation
C15_FatalStartSurfaced ==
    \A t \in Threads :
        outcome[t].cause \in {"config", "connect"} =>
            outcome[t].returned # Ended("cancelled").returned

\* C16: of the collections selected for a library, the ones whose pin call
\* raised (each costs the environment one fault) are not added to the pinned
\* set of the cycle and the others are, the pass goes on, and the cycle
\* records exactly the pinned set
C16_FailedPinNotRecorded ==
    [][ \A t \in Threads :
          /\ (ProcessesLibrary(t) /\ pass'[t][Processed(t)].result = "selected") =>
                LET selected == pass'[t][Processed(t)].selected
                    added == previous_pinned'[t] \ previous_pinned[t]
                IN  /\ previous_pinned[t] \subseteq previous_pinned'[t]
                    /\ added \subseteq
                          {<<Processed(t), selected[i].title>> : i \in DOMAIN selected}
                    /\ Cardinality(added) = Len(selected) - (budget - budget')
                    /\ added \subseteq pinned'
                    /\ reset_needed'[t] = reset_needed[t]
                    /\ pc'[t] \in {"libs", "after_libs"}
          /\ (pc[t] = "after_libs" /\ pc'[t] = "sleep") =>
                DOMAIN used_collections'[t] =
                    DOMAIN used_collections[t] \cup {c[2] : c \in previous_pinned[t]} ]_vars

\* a cycle selected two collections of a library, one pin call raised, and
\* the cycle recorded the other one alone
C16_Witness ==
    \E t \in Threads :
        /\ pc[t] = "sleep"
        /\ "Movies" \in DOMAIN pass[t]
        /\ Len(pass[t]["Movies"].selected) = 2
        /\ Cardinality({c \in previous_pinned[t] : c[1] = "Movies"}) = 1
        /\ \E i, j \in 1..2 :
              /\ pass[t]["Movies"].selected[i].title \in DOMAIN used_collections[t]
              /\ pass[t]["Movies"].selected[j].title \notin DOMAIN used_collections[t]

\* C17: a library whose processing raised contributes nothing: nothing is
\* promoted or added to the pinned set of the cycle, no reset is asked for,
\* and the pass goes on with the next configured library, so that a pass
\* without shortage has gone through every configured library
C17_LibraryFailureIsolated ==
    /\ [][ \A t \in Threads :
             (ProcessesLibrary(t) /\ pass'[t][Processed(t)].result = "error") =>
                 /\ pinned' = pinned
                 /\ previous_pinned'[t] = previous_pinned[t]
                 /\ reset_needed'[t] = reset_needed[t]
                 /\ lib_idx'[t] = lib_idx[t] + 1
                 /\ pc'[t] = IF lib_idx[t] < Len(Libraries) THEN "libs" ELSE "after_libs"
          ]_vars
    /\ [](\A t \in Threads :
            (pc[t] = "after_libs" /\ ~reset_needed[t]) =>
                DOMAIN pass[t] = Range(Libraries))

\* the first library could not be read and the second one was pinned from
C17_Witness ==
    \E t \in Threads :
        /\ pc[t] = "after_libs"
        /\ ~reset_needed[t]
        /\ DOMAIN pass[t] = {"Movies", "TV"}
        /\ pass[t]["Movies"].result = "error"
        /\ pass[t]["TV"].result = "selected"
        /\ previous_pinned[t] # {}
        /\ \A c \in previous_pinned[t] : c[1] = "TV"

\* ---------------------------------------------- properties of the resolver
\* minutes since midnight of the four digits of an "HH:MM" text
Minutes(hm) == (hm[1] * 10 + hm[2]) * 60 + hm[3] * 10 + hm[4]

WellFormed(details) == {"start_time", "end_time"} \subseteq DOMAIN details

\* the time of the call lies in the block's range, start included, end not
Contains(details) ==
    /\ WellFormed(details)
    /\ Minutes(details.start_time) <= resolver.minute
    /\ resolver.minute < Minutes(details.end_time)

\* the call falls on the weekday that has the schedule, and the schedule is
\* an object
Scheduled == resolver.day = 0 /\ resolver.blocks.type = "dict"

ResolverBlocks == resolver.blocks.items

LibraryDefault == IF resolver.has_default THEN 2 ELSE DefaultLibraryLimit

\* C18: when blocks of the weekday contain the current time, every call
\* returns the first of them in document order with that block's limit, and
\* all calls with the same configuration and time return the same
C18_FirstDeclaredBlockWins ==
    \A k \in DOMAIN resolver.calls :
        /\ resolver.calls[k] = resolver.calls[1]
        /\ ( /\ Scheduled
             /\ \A i \in DOMAIN ResolverBlocks : WellFormed(ResolverBlocks[i].details)
             /\ \E i \in DOMAIN ResolverBlocks : Contains(ResolverBlocks[i].details) ) =>
               LET first == CHOOSE i \in DOMAIN ResolverBlocks :
                               /\ Contains(ResolverBlocks[i].details)
                               /\ \A j \in 1..(i - 1) : ~Contains(ResolverBlocks[j].details)
               IN  resolver.calls[k] =
                       << ResolverBlocks[first].name,
                          Get(ResolverBlocks[first].details, "limit", LibraryDefault) >>

\* two calls at a time that two blocks with different limits contain
C18_Witness ==
    /\ Scheduled
    /\ Len(resolver.calls) = 2
    /\ Len(ResolverBlocks) = 2
    /\ \A i \in 1..2 : Contains(ResolverBlocks[i].details)
    /\ "limit" \in DOMAIN ResolverBlocks[1].details
    /\ "limit" \in DOMAIN ResolverBlocks[2].details
    /\ ResolverBlocks[1].details.limit # ResolverBlocks[2].details.limit
    /\ resolver.calls[1] = <<"B1", ResolverBlocks[1].details.limit>>

\* C19: when no block of the weekday contains the current time, the weekday
\* has no blocks, or the schedule is malformed, the call returns "Default"
\* with the library's default limit and does not raise
C19_DefaultWhenNothingMatches ==
    \A k \in DOMAIN resolver.calls :
        ( \/ ~Scheduled
          \/ \A i \in DOMAIN ResolverBlocks : ~Contains(ResolverBlocks[i].details) ) =>
            resolver.calls[k] = <<"Default", LibraryDefault>>

\* C20: a call returns a block only when start <= time < end holds for it,
\* so a block whose end is before its start is never returned
C20_MatchIsStartInclusiveEndExclusive ==
    \A k \in DOMAIN resolver.calls :
        /\ ~Scheduled => resolver.calls[k][1] = "Default"
        /\ Scheduled => \A i \in DOMAIN ResolverBlocks :
              /\ resolver.calls[k][1] = ResolverBlocks[i].name =>
                    Contains(ResolverBlocks[i].details)
              /\ ( /\ WellFormed(ResolverBlocks[i].details)
                   /\ Minutes(ResolverBlocks[i].details.end_time)
                        < Minutes(ResolverBlocks[i].details.start_time) ) =>
                    resolver.calls[k][1] # ResolverBlocks[i].name

\* a call at 23:30 with the single block 23:00 to 06:00 returned "Default"
C20_Witness ==
    /\ Scheduled
    /\ resolver.minute = 23 * 60 + 30
    /\ Len(ResolverBlocks) = 1
    /\ WellFormed(ResolverBlocks[1].details)
    /\ ResolverBlocks[1].details.start_time = T2300
    /\ ResolverBlocks[1].details.end_time = T0600
    /\ Len(resolver.calls) > 0
    /\ resolver.calls[1][1] = "Default"

\* C21: the quota a library's selection is run with is the limit the
\* resolver returned for it, which for "Default" is the library's entry of
\* default_limits
C21_QuotaIsResolverLimit ==
    [][ \A t \in Threads :
          (ProcessesLibrary(t) /\ pass'[t][Processed(t)].result # "error") =>
              pass'[t][Processed(t)].limit =
                  get_current_time_block(Config, Processed(t), Now)[2] ]_vars

\* C22: with always_pin_new_episodes true, the special-case step promotes
\* the "New Episodes" collection of every configured library when its calls
\* succeed, and no later step of the program demotes it: the sweep leaves it
\* promoted
C22_SentinelStaysPinned ==
    [][ AlwaysPinNewEpisodes =>
          /\ \A t \in Threads :
                (pc[t] = "new_episodes" /\ pc'[t] = "unpin" /\ budget' = budget) =>
                    Sentinels(Libraries) \subseteq pinned'
          /\ \A c \in Sentinels(Libraries) : c \in pinned => c \in pinned' ]_vars

\* a later cycle, past its sweep: what the cycle before promoted is demoted
\* and the "New Episodes" collection is all that is left
C22_Witness ==
    \E t \in Threads :
        /\ AlwaysPinNewEpisodes
        /\ pc[t] = "libs"
        /\ lib_idx[t] = 1
        /\ DOMAIN used_collections[t] # {}
        /\ Sentinels(Libraries) # {}
        /\ pinned = Sentinels(Libraries)

\* C23: with always_pin_new_episodes false and no remote call having
\* failed, no "New Episodes" collection is promoted when a completed cycle
\* reaches its sleep
C23_SentinelUnpinnedAtSleep ==
    \A t \in Threads :
        ( /\ ConfigLoaded(Config)
          /\ ~AlwaysPinNewEpisodes
          /\ budget = MaxEvents
          /\ pc[t] = "sleep" ) =>
            \A c \in pinned : ~IsSentinel(c[2])

\* C24: an entry the user deleted from the exclusion list, or dropped with
\* the Reset List button, is gone for good unless its title is pinned again:
\* the cooldown document never holds it again, and a cycle that starts after
\* the deletion does not count the title as excluded
C24_RemovedEntryStaysRemoved ==
    [][ \A ti \in AllTitles :
          embargo'[ti] = Removed =>
              /\ ti \notin DOMAIN used_file'
              /\ \A t \in Threads :
                    (pc[t] = "top" /\ pc'[t] = "new_episodes") =>
                        ti \notin DOMAIN used_collections'[t] ]_vars

\* C25: a title the exemption document held when a cycle began is not
\* selected in that cycle, whether the user saved it before the loop was
\* started or while it was running
C25_SavedExemptionHonoured ==
    [][ \A t \in Threads :
          ProcessesLibrary(t) =>
              \A i \in DOMAIN pass'[t][Processed(t)].selected :
                  pass'[t][Processed(t)].selected[i].title
                      \notin Range(cycle_exemptions[t]) ]_vars

\* C27: no step of the rotation loop changes the persisted exemption
\* document: every step that moves a loop thread, its cleanup, the special
\* case, the sweep, the selection, the reset, the reload, the record and the
\* sleep, leaves the document and its readability as they were
C27_LoopLeavesExemptionsAlone ==
    [][ (LoopVars' # LoopVars \/ sleep_left' # sleep_left) =>
          /\ exemptions_file' = exemptions_file
          /\ ("exemptions" \in corrupt') = ("exemptions" \in corrupt) ]_vars

\* the loop has reset the exclusion list while the exemption document holds
\* a title
C27_Witness ==
    \E t \in Threads :
        /\ pc[t] = "reload"
        /\ used_file = EmptyDict
        /\ exemptions_file = <<"C">>

\* C26: while an automation loop is alive, no request makes a second loop
\* thread and none clears the cancellation signal, whatever start and stop
\* requests came before
C26_StartWhileRunningIsNoOp ==
    [][ (\E t \in Threads : Alive(t)) =>
          /\ \A u \in Threads : ~Alive(u) => pc'[u] = "dead"
          /\ stop_event => stop_event' ]_vars

\* C28: load_config does not fail on malformed time_blocks: a library's
\* time_blocks that is no object, or is missing, becomes the empty object,
\* a weekday whose value is no object becomes the empty object, every
\* other weekday keeps its value, and loading what load_config returned
\* returns it unchanged
SanitizedFrom(raw, out) ==
    IF ~IsDict(raw)
    THEN out = EmptyDict
    ELSE /\ DOMAIN out = DOMAIN raw
         /\ \A day \in DOMAIN raw :
               out[day] = IF IsDict(raw[day]) THEN raw[day] ELSE Dict(<<>>)

C28_MalformedTimeBlocksCoerced ==
    /\ Len(resolver.calls) >= 1 =>
          LET settings == resolver.calls[1].libraries_settings IN
          /\ DOMAIN settings = {"Movies", "TV"}
          /\ SanitizedFrom(resolver.movies, settings.Movies.time_blocks)
          /\ SanitizedFrom(IF resolver.tv = "absent" THEN EmptyDict
                           ELSE RawTimeBlocks_TV[resolver.tv],
                           settings.TV.time_blocks)
    /\ Len(resolver.calls) = 2 => resolver.calls[2] = resolver.calls[1]

\* both loads done on a schedule with a malformed Monday and a well-formed
\* Tuesday, next to a library whose time_blocks is a list
C28_Witness ==
    /\ Len(resolver.calls) = 2
    /\ resolver.movies = [Monday |-> NotADict, Tuesday |-> Day(1)]
    /\ resolver.tv = "list"
    /\ resolver.calls[2].libraries_settings.Movies.time_blocks
          = [Monday |-> Dict(<<>>), Tuesday |-> Day(1)]
    /\ resolver.calls[2].libraries_settings.TV.time_blocks = EmptyDict

\* C29: in a pass that has found a library short of its quota, no library
\* had collections selected and promoted
C29_NoPinInResetPass ==
    \A t \in Threads :
        (InPass(t) /\ reset_needed[t]) =>
            \A lib \in DOMAIN pass[t] : pass[t][lib].result # "selected"

\* C30: the step that finds a library short ends the pass with the
\* libraries configured after it unprocessed; from there the loop resets and
\* reloads the exclusion list and is back at its cleanup, with nothing
\* recorded in its cooldown map: it does not pass through the record, the
\* refresh request and the sleep of a completed cycle
C30_ShortageCutsPassShort ==
    [][ \A t \in Threads :
          /\ (pc[t] = "libs" /\ reset_needed'[t]) =>
                /\ pc'[t] = "after_libs"
                /\ DOMAIN pass'[t] = {Libraries[i] : i \in 1..lib_idx[t]}
                /\ used_collections'[t] = used_collections[t]
          /\ (pc[t] = "after_libs" /\ reset_needed[t] /\ pc'[t] # pc[t]) =>
                /\ pc'[t] = "reload"
                /\ pass'[t] = pass[t]
                /\ used_collections'[t] = used_collections[t]
                /\ used_file' = EmptyDict
                /\ sleep_left'[t] = 0
          /\ (pc[t] = "reload" /\ pc'[t] # pc[t]) =>
                /\ pc'[t] \in {"top", "dead"}
                /\ pc'[t] = "top" => used_collections'[t] = used_file
                /\ sleep_left'[t] = 0 ]_vars

\* back at the cleanup after the first library was found short: the second
\* was not processed, the cooldown map holds nothing of the pass, no sleep
\* is pending
C30_Witness ==
    \E t \in Threads :
        /\ pc[t] = "top"
        /\ retry[t] = "Movies"
        /\ DOMAIN pass[t] = {"Movies"}
        /\ pass[t]["Movies"].result = "insufficient"
        /\ used_collections[t] = EmptyDict
        /\ sleep_left[t] = 0

\* C31: when the loop is back at the top of its while loop after the reset
\* branch, the cooldown document and the cooldown map the loop holds are
\* both empty; stated for a document that holds only what the program
\* itself wrote, dates in its own format
C31_RetryStartsEmpty ==
    [][ \A t \in Threads :
          (pc[t] = "reload" /\ pc'[t] = "top" /\ AllDatesValid(used_file)) =>
              /\ used_file' = EmptyDict
              /\ used_collections'[t] = EmptyDict ]_vars

\* C32: main ends as cancelled only from the test at the top of its while
\* loop; no cycle begins while the event is set; and a cycle that is under
\* way when the event is set goes on to its end: its pass, once every
\* library is done, is recorded and the loop reaches its sleep
C32_CancellationIsCooperative ==
    [][ \A t \in Threads :
          /\ (outcome'[t].cause = "cancelled" /\ outcome[t].cause # "cancelled") =>
                (pc[t] = "top" /\ stop_event)
          /\ (pc[t] = "top" /\ pc'[t] = "new_episodes") => ~stop_event
          /\ (InCycle(t) /\ stop_event /\ pc'[t] = "dead") =>
                (pc[t] = "reload" /\ outcome'[t].cause = "cycle")
          /\ (pc[t] = "after_libs" /\ ~reset_needed[t] /\ stop_event /\ pc'[t] # pc[t]) =>
                /\ pc'[t] = "sleep"
                /\ \A c \in previous_pinned[t] : c[2] \in DOMAIN used_file' ]_vars

\* a cycle has promoted and recorded collections and gone to sleep with the
\* event set
C32_Witness ==
    \E t \in Threads :
        /\ stop_event
        /\ pc[t] = "sleep"
        /\ sleep_left[t] = SleepSlices
        /\ previous_pinned[t] # {}
        /\ \A c \in previous_pinned[t] : c[2] \in DOMAIN used_file

\* C33: once the cancellation event is set, either it is cleared again or
\* every automation thread ends, wherever the loop was: in a cycle, in its
\* sleep or in the reset branch
C33_CancelledLoopTerminates ==
    stop_event ~> (~stop_event \/ \A t \in Threads : ~Alive(t))

\* the event is set while the loop is in its reset branch, about to retry
C33_Witness ==
    \E t \in Threads :
        /\ stop_event
        /\ pc[t] = "reload"
        /\ retry[t] # "None"

\* C34: from the end of its cleanup to the end of the for loop over the
\* libraries the cooldown map of a pass does not change, so every library is
\* selected against the map the cleanup left; no collection the pass has
\* promoted is in that map while a library is still to be processed
C34_OneMapPerPass ==
    [][ \A t \in Threads :
          /\ pc[t] \in {"new_episodes", "unpin", "libs"} =>
                used_collections'[t] = used_collections[t]
          /\ ProcessesLibrary(t) =>
                \A c \in previous_pinned'[t] : c[2] \notin DOMAIN used_collections'[t] ]_vars

\* both libraries have selected and promoted in one pass, the second after
\* the first, and the map holds neither's collections yet
C34_Witness ==
    \E t \in Threads :
        /\ pc[t] = "after_libs"
        /\ DOMAIN pass[t] = {"Movies", "TV"}
        /\ pass[t]["Movies"].result = "selected"
        /\ pass[t]["TV"].result = "selected"
        /\ \E m \in previous_pinned[t] : m[1] = "Movies"
        /\ \E v \in previous_pinned[t] : v[1] = "TV"
        /\ \A c \in previous_pinned[t] : c[2] \notin DOMAIN used_collections[t]

\* C35: no library's selection ever draws a "New Episodes" collection, and
\* no cooldown map or cooldown document ever holds an entry for one
C35_SentinelOutsideSelection ==
    /\ \A ti \in DOMAIN used_file : ~IsSentinel(ti)
    /\ \A t \in Threads :
          /\ \A lib \in DOMAIN pass[t] : \A i \in DOMAIN pass[t][lib].selected :
                ~IsSentinel(pass[t][lib].selected[i].title)
          /\ \A ti \in DOMAIN used_collections[t] : ~IsSentinel(ti)

\* C36: once restart_program has found the automation thread alive, it
\* leaves the stopping of that thread only for the call of os.execl
C36_RestartReachesExec ==
    [][ (gui.pc \in {"restart_stop", "restart_join"}
            /\ gui'.pc \notin {"restart_stop", "restart_join"}) =>
          gui'.pc = "execl" ]_vars

\* C37: Remove Selected on the row of a title deletes that title's entry
\* from the cooldown document and no other, whatever characters the title
\* is made of
C37_RemoveDeletesSelectedTitle ==
    resolver.calls # << >> =>
        resolver.calls[1] =
            [other \in DOMAIN resolver.used \ {resolver.selected} |-> resolver.used[other]]

====
